---- MODULE Spec2Model ----
(***************************************************************************)
(* Model of terra_notebook_utils/drs.py: DRS resolution through martha,    *)
(* normalisation of the two response shapes to DRSInfo, requester-pays     *)
(* enablement, and the copy pipeline built on DRSCopyClient.                *)
(*                                                                         *)
(* Python strings are sequences of one-character strings.  JSON values     *)
(* are tagged records; None is JNull.                                      *)
(***************************************************************************)
EXTENDS Integers, Sequences, FiniteSets, TLC

VARIABLES
    rid,        \* SpecResolve: index of the identifier under resolution
    rsp,        \* SpecResolve: index of the resolver response
    rout,       \* SpecResolve: outcome of the last get_drs / get_drs_info call
    rpCache,    \* lru_cache of enable_requester_pays: keys, least recent first
    putCount,   \* PUT requests issued per (workspace name, namespace)
    rpLog,      \* SpecRP: outcome of the last enable_requester_pays call
    mainpc,     \* position of the submitting thread
    op,         \* the operation the submitting thread runs
    jobs,       \* per manifest entry: state of its copy job
    queue,      \* DRSCopyClient._queue: enqueued jobs not yet taken
    busy,       \* the jobs in the hands of a worker
    net,        \* network requests issued, per thread class and kind
    outcome     \* result of the last finished operation

vars == << rid, rsp, rout, rpCache, putCount, rpLog, mainpc, op, jobs, queue,
           busy, net, outcome >>

-----------------------------------------------------------------------------
(* Python strings *)

S_gs  == << "g", "s", ":", "/", "/" >>
S_drs == << "d", "r", "s", ":", "/", "/" >>
S_s3  == << "s", "3", ":", "/", "/" >>
S_text == << "t", "e", "x", "t" >>
S_response == << "r", "e", "s", "p", "o", "n", "s", "e" >>
S_url == << "u", "r", "l" >>
S_urls == << "u", "r", "l", "s" >>
S_dos == << "d", "o", "s" >>
S_data_object == << "d", "a", "t", "a", "_", "o", "b", "j", "e", "c", "t" >>
S_gsUri == << "g", "s", "U", "r", "i" >>
SLASH == "/"

StartsWith(s, p) == Len(s) >= Len(p) /\ SubSeq(s, 1, Len(p)) = p

EndsWith(s, p) == Len(s) >= Len(p) /\ SubSeq(s, Len(s) - Len(p) + 1, Len(s)) = p

Contains(s, p) == \E i \in 1..(Len(s) - Len(p) + 1) : SubSeq(s, i, i + Len(p) - 1) = p

FirstIndex(s, c) ==
    IF \E i \in 1..Len(s) : s[i] = c
    THEN CHOOSE i \in 1..Len(s) : s[i] = c /\ \A j \in 1..(i - 1) : s[j] # c
    ELSE 0

LastIndex(s, c) ==
    IF \E i \in 1..Len(s) : s[i] = c
    THEN CHOOSE i \in 1..Len(s) : s[i] = c /\ \A j \in (i + 1)..Len(s) : s[j] # c
    ELSE 0

\* s.split(c, 1): a list of one or two strings
Split1(s, c) ==
    LET i == FirstIndex(s, c) IN
    IF i = 0 THEN << s >> ELSE << SubSeq(s, 1, i - 1), SubSeq(s, i + 1, Len(s)) >>

\* s.rsplit(c, 1)[-1]
RSplit1Last(s, c) ==
    LET i == LastIndex(s, c) IN
    IF i = 0 THEN s ELSE SubSeq(s, i + 1, Len(s))

-----------------------------------------------------------------------------
(* JSON values and Python results *)

JNull == [t |-> "null"]
JStr(s) == [t |-> "str", s |-> s]
JNum(n) == [t |-> "num", n |-> n]
JDict(d) == [t |-> "dict", d |-> d]
JList(l) == [t |-> "list", l |-> l]

\* A call's result: a value, or a raised exception.  A DRSResolutionError of
\* get_drs carries the status code and error_details (<< >> when the message
\* ends with the empty string, << v >> when it ends with "Error: {v}").
Ok(v) == [ok |-> TRUE, val |-> v, exc |-> "none", status |-> 0, details |-> << >>]
Raise(e) == [ok |-> FALSE, val |-> JNull, exc |-> e, status |-> 0, details |-> << >>]
DRSResolutionError ==
    [ok |-> FALSE, val |-> JNull, exc |-> "DRSResolutionError", status |-> 0, details |-> << >>]

\* `key in j`: "T", "F", or "TypeError" when j is not a container
PyIn(key, chars, j) ==
    CASE j.t = "dict" -> IF key \in DOMAIN j.d THEN "T" ELSE "F"
      [] j.t = "str"  -> IF Contains(j.s, chars) THEN "T" ELSE "F"
      [] j.t = "list" -> IF \E i \in 1..Len(j.l) : j.l[i].t = "str" /\ j.l[i].s = chars
                         THEN "T" ELSE "F"
      [] OTHER        -> "TypeError"

\* j[key] with a string key
PyGetItem(j, key) ==
    CASE j.t = "dict" -> IF key \in DOMAIN j.d THEN Ok(j.d[key]) ELSE Raise("KeyError")
      [] OTHER        -> Raise("TypeError")

\* dict.get(key): the value, None when absent
PyGet(j, key) == IF key \in DOMAIN j.d THEN j.d[key] ELSE JNull

\* truthiness of a value in `a or b`
Truthy(j) ==
    CASE j.t = "null" -> FALSE
      [] j.t = "str"  -> Len(j.s) > 0
      [] j.t = "num"  -> j.n # 0
      [] j.t = "dict" -> DOMAIN j.d # {}
      [] j.t = "list" -> Len(j.l) > 0

-----------------------------------------------------------------------------
(* Resolver client and response normaliser *)

_GS_SCHEMA == S_gs

DRSInfo(credentials, access_url, bucket_name, key, name, size, updated) ==
    [credentials |-> credentials, access_url |-> access_url,
     bucket_name |-> bucket_name, key |-> key, name |-> name,
     size |-> size, updated |-> updated]

_parse_gs_url(gs_url) ==
    IF StartsWith(gs_url, _GS_SCHEMA)
    THEN LET parts == Split1(SubSeq(gs_url, Len(_GS_SCHEMA) + 1, Len(gs_url)), SLASH) IN
         IF Len(parts) = 2
         THEN Ok(<< parts[1], parts[2] >>)
         ELSE Raise("ValueError")      \* unpacking a one-element list
    ELSE Raise("RuntimeError")

\* error_details of get_drs for a non-200 response (lines 72-80)
error_details(resp) ==
    IF ~resp.isjson THEN Raise("JSONDecodeError")
    ELSE LET response_json == resp.json
             in1 == PyIn("response", S_response, response_json) IN
         CASE in1 = "TypeError" -> Raise("TypeError")
           [] in1 = "F" -> Ok(<< >>)
           [] in1 = "T" ->
                LET r == PyGetItem(response_json, "response") IN
                IF ~r.ok THEN r
                ELSE LET in2 == PyIn("text", S_text, r.val) IN
                     CASE in2 = "TypeError" -> Raise("TypeError")
                       [] in2 = "F" -> Ok(<< >>)
                       [] in2 = "T" ->
                            LET x == PyGetItem(r.val, "text") IN
                            IF ~x.ok THEN x ELSE Ok(<< x.val >>)

\* get_drs: the requests it issues and its result.  On success the value is
\* the Response itself.
get_drs(drs_url, resp) ==
    [tokens |-> 1, posts |-> 1,
     res |-> IF 200 # resp.status_code
             THEN LET e == error_details(resp) IN
                  IF ~e.ok THEN e
                  ELSE [DRSResolutionError EXCEPT !.status = resp.status_code,
                                                   !.details = e.val]
             ELSE Ok(resp)]

_get_drs_gs_creds(response) ==
    IF response.t # "dict" THEN Raise("AttributeError")
    ELSE LET service_account_info == PyGet(response, "googleServiceAccount") IN
         IF service_account_info.t # "null"
         THEN PyGetItem(service_account_info, "data")
         ELSE Ok(JNull)

\* the loop of lines 110-113 from element i on: Ok(JNull) when no url matched
RECURSIVE first_gs_url(_, _)
first_gs_url(urls, i) ==
    IF i > Len(urls) THEN Ok(JNull)
    ELSE LET url_info == urls[i]
             has == PyIn("url", S_url, url_info) IN
         CASE has = "TypeError" -> Raise("TypeError")
           [] has = "F" -> first_gs_url(urls, i + 1)
           [] has = "T" ->
                LET u == PyGetItem(url_info, "url") IN
                IF ~u.ok THEN u
                ELSE IF u.val.t # "str" THEN Raise("AttributeError")
                ELSE IF StartsWith(u.val.s, _GS_SCHEMA) THEN Ok(u.val)
                ELSE first_gs_url(urls, i + 1)

\* `for url_info in data_object['urls']` over whatever value urls is
find_data_url(urls) ==
    CASE urls.t = "list" -> first_gs_url(urls.l, 1)
      [] urls.t = "str"  -> Ok(JNull)   \* one-character strings never contain 'url'
      [] urls.t = "dict" -> IF DOMAIN urls.d \cap {"url", "urls"} # {}
                            THEN Raise("TypeError") ELSE Ok(JNull)
      [] OTHER           -> Raise("TypeError")

v2_build(drs_data, data_object, data_url) ==
    LET parsed == _parse_gs_url(data_url.s)
        creds == _get_drs_gs_creds(drs_data) IN
    IF ~parsed.ok THEN parsed
    ELSE IF ~creds.ok THEN creds
    ELSE Ok(DRSInfo(creds.val, JNull, JStr(parsed.val[1]), JStr(parsed.val[2]),
                    PyGet(data_object, "name"), PyGet(data_object, "size"),
                    PyGet(data_object, "updated")))

v2_data_object(drs_data, data_object) ==
    LET hasUrls == PyIn("urls", S_urls, data_object) IN
    CASE hasUrls = "TypeError" -> Raise("TypeError")
      [] hasUrls = "F" -> DRSResolutionError
      [] hasUrls = "T" ->
           LET urls == PyGetItem(data_object, "urls") IN
           IF ~urls.ok THEN urls
           ELSE LET data_url == find_data_url(urls.val) IN
                IF ~data_url.ok THEN data_url
                ELSE IF data_url.val.t = "null" THEN DRSResolutionError
                ELSE v2_build(drs_data, data_object, data_url.val)

_drs_info_from_martha_v2(drs_url, drs_data) ==
    LET dos == PyGetItem(drs_data, "dos") IN
    IF ~dos.ok THEN dos
    ELSE LET has == PyIn("data_object", S_data_object, dos.val) IN
         CASE has = "TypeError" -> Raise("TypeError")
           [] has = "F" -> DRSResolutionError
           [] has = "T" ->
                LET data_object == PyGetItem(dos.val, "data_object") IN
                IF ~data_object.ok THEN data_object
                ELSE v2_data_object(drs_data, data_object.val)

_drs_info_from_martha_v3(drs_url, drs_data) ==
    LET has == PyIn("gsUri", S_gsUri, drs_data) IN
    CASE has = "TypeError" -> Raise("TypeError")
      [] has = "F" -> DRSResolutionError
      [] has = "T" ->
           LET creds == _get_drs_gs_creds(drs_data) IN
           IF ~creds.ok THEN creds
           ELSE Ok(DRSInfo(creds.val,
                           PyGet(drs_data, "accessUrl"),
                           PyGet(drs_data, "bucket"),
                           PyGet(drs_data, "name"),
                           PyGet(drs_data, "fileName"),
                           PyGet(drs_data, "size"),
                           PyGet(drs_data, "timeUpdated")))

\* get_drs_info: the requests it issues and its result
get_drs_info(drs_url, resp) ==
    IF ~StartsWith(drs_url, S_drs)
    THEN [tokens |-> 0, posts |-> 0, res |-> Raise("AssertionError")]
    ELSE LET g == get_drs(drs_url, resp) IN
         IF ~g.res.ok THEN g
         ELSE IF ~resp.isjson THEN [g EXCEPT !.res = Raise("JSONDecodeError")]
         ELSE LET drs_data == resp.json
                  has == PyIn("dos", S_dos, drs_data) IN
              [g EXCEPT !.res =
                  CASE has = "TypeError" -> Raise("TypeError")
                    [] has = "T" -> _drs_info_from_martha_v2(drs_url, drs_data)
                    [] has = "F" -> _drs_info_from_martha_v3(drs_url, drs_data)]

-----------------------------------------------------------------------------
(* Requester-pays enabler *)

WORKSPACE_NAME == 1
WORKSPACE_GOOGLE_PROJECT == 1

\* maxsize of functools.lru_cache() when none is given
LruMaxSize == 128

NumNames == 2
NumNamespaces == 2

\* workspace names are numbered; 0 is the empty name (falsy)
WsNames == 0..NumNames
Namespaces == 1..NumNamespaces
Pairs == WsNames \X Namespaces

PutStatuses == {204, 403, 500}

\* the positional arguments a caller may pass to enable_requester_pays
RpArgs == {<< >>} \cup {<< n >> : n \in WsNames} \cup Pairs

\* the parameters after the defaults of the signature are applied
workspace_name(args) == IF Len(args) >= 1 THEN args[1] ELSE WORKSPACE_NAME
workspace_namespace(args) == IF Len(args) >= 2 THEN args[2] ELSE WORKSPACE_GOOGLE_PROJECT

\* lru_cache keys a call by the arguments as passed, defaults not applied
lru_key(args) == args

Remove(seq, x) == SelectSeq(seq, LAMBDA y : y # x)

\* cache after a miss on key whose call returned normally
lru_insert(cache, key) ==
    LET c == Append(cache, key) IN
    IF Len(c) > LruMaxSize THEN Tail(c) ELSE c

\* mutant: a status other than 204 raises
enable_body_fatal(name, namespace, status) ==
    IF name = 0
    THEN [res |-> Raise("AssertionError"), tokens |-> 0, put |-> << >>, warned |-> FALSE]
    ELSE [res |-> IF status = 204 THEN Ok(JNull) ELSE Raise("HTTPError"),
          tokens |-> 1, put |-> << << name, namespace >> >>, warned |-> status # 204]

\* body of enable_requester_pays (lines 37-54), given the status of the PUT
enable_body(name, namespace, status) ==
    IF name = 0
    THEN [res |-> Raise("AssertionError"), tokens |-> 0, put |-> << >>, warned |-> FALSE]
    ELSE [res |-> Ok(JNull), tokens |-> 1, put |-> << << name, namespace >> >>,
          warned |-> status # 204]

\* enable_requester_pays(*args) through its lru_cache wrapper
enable_requester_pays(cache, args, status) ==
    LET key == lru_key(args) IN
    IF \E i \in 1..Len(cache) : cache[i] = key
    THEN [res |-> Ok(JNull), tokens |-> 0, put |-> << >>, warned |-> FALSE,
          hit |-> TRUE, cache |-> Append(Remove(cache, key), key)]
    ELSE LET b == enable_body(workspace_name(args), workspace_namespace(args), status) IN
         [res |-> b.res, tokens |-> b.tokens, put |-> b.put, warned |-> b.warned,
          hit |-> FALSE,
          cache |-> IF b.res.ok THEN lru_insert(cache, key) ELSE cache]

AddPuts(pc, put) ==
    IF put = << >> THEN pc ELSE [pc EXCEPT ![put[1]] = @ + 1]

-----------------------------------------------------------------------------
(* Destination resolver *)

_bucket_name_and_key(gs_url) ==
    IF ~StartsWith(gs_url, S_gs) THEN Raise("AssertionError")
    ELSE LET parts == Split1(SubSeq(gs_url, 6, Len(gs_url)), SLASH) IN
         IF 1 >= Len(parts) \/ Len(parts[2]) = 0
         THEN Ok(<< parts[1], << >> >>)
         ELSE Ok(<< parts[1], parts[2] >>)

\* `info.name or info.key.rsplit("/", 1)[-1]`; names and keys are strings or None
basename_of(info) ==
    IF Truthy(info.name) THEN Ok(info.name.s)
    ELSE IF info.key.t # "str" THEN Raise("AttributeError")
    ELSE Ok(RSplit1Last(info.key.s, SLASH))

_resolve_bucket_target(url, info) ==
    LET bk == _bucket_name_and_key(url) IN
    IF ~bk.ok THEN bk
    ELSE LET bucket_name == bk.val[1]
             pfx0 == bk.val[2] IN
         IF Len(pfx0) = 0 \/ EndsWith(pfx0, << SLASH >>)
         THEN LET pfx == IF EndsWith(pfx0, << SLASH >>)
                         THEN SubSeq(pfx0, 1, Len(pfx0) - 1) ELSE pfx0
                  basename == basename_of(info) IN
              IF ~basename.ok THEN basename
              ELSE Ok(<< bucket_name,
                         IF Len(pfx) > 0 THEN pfx \o << SLASH >> \o basename.val
                                         ELSE basename.val >>)
         ELSE Ok(<< bucket_name, pfx0 >>)

\* the file system seen by os.path: the working directory and the directories
S_cwd == << "/", "w" >>
S_dot == << "." >>
S_tmpdir == << "/", "t" >>
ExistingDirs == { S_cwd, S_tmpdir, S_dot, S_tmpdir \o << SLASH >> }

\* os.path.abspath for the paths used: "." is the working directory, an
\* absolute path loses its trailing separator
abspath(filepath) ==
    IF filepath = S_dot THEN S_cwd
    ELSE IF Len(filepath) > 1 /\ EndsWith(filepath, << SLASH >>)
         THEN SubSeq(filepath, 1, Len(filepath) - 1)
         ELSE filepath

_resolve_local_target(filepath, info) ==
    IF EndsWith(filepath, << SLASH >>) \/ filepath \in ExistingDirs
    THEN LET filename == basename_of(info) IN
         IF ~filename.ok THEN filename
         ELSE Ok(abspath(filepath) \o << SLASH >> \o filename.val)
    ELSE Ok(filepath)

\* get_drs_blob(info, workspace_namespace): the GSBlob's bucket, key, credentials
get_drs_blob(info, namespace) ==
    [bucket_name |-> info.bucket_name, key |-> info.key,
     credentials |-> info.credentials, billing_project |-> namespace]

-----------------------------------------------------------------------------
(* Inputs: identifiers, resolver responses *)

U_drs_a   == S_drs \o << "a" >>
U_gs_bk   == S_gs \o << "b", "/", "k" >>
U_gs_b    == S_gs \o << "b" >>
U_gs_b_   == S_gs \o << "b", "/" >>
U_gs_bdk  == S_gs \o << "b", "/", "d", "/", "k" >>
U_gs_c    == S_gs \o << "c", "/", "j" >>
U_s3_x    == S_s3 \o << "x" >>
U_gs_bucket_key ==
    S_gs \o << "b", "u", "c", "k", "e", "t", "/", "k", "e", "y" >>

Identifiers ==
    << U_drs_a, U_gs_bk, << >>, << "d", "r", "s", ":", "/" >>, << "x" >> \o S_drs >>

UrlInfo(u) == JDict([url |-> JStr(u)])
Legacy(data_object) == JDict([dos |-> JDict([data_object |-> data_object])])
LegacyUrls(urls) == Legacy(JDict([urls |-> JList(urls)]))
Creds == JDict([data |-> JDict([private_key |-> JStr(<< "p" >>)])])

V3Full(bucket, key, fileName) ==
    JDict([gsUri |-> JStr(S_gs \o bucket \o << SLASH >> \o key),
           bucket |-> JStr(bucket), name |-> JStr(key), fileName |-> JStr(fileName),
           size |-> JNum(1), timeUpdated |-> JStr(<< "t" >>),
           googleServiceAccount |-> Creds])

Statuses == << 200, 404, 500 >>

NotJson == [isjson |-> FALSE, json |-> JNull]
Json(j) == [isjson |-> TRUE, json |-> j]

Bodies == <<
    Json(V3Full(<< "b" >>, << "k" >>, << "f" >>)),
    Json(JDict([gsUri |-> JStr(U_gs_bk)])),
    Json(JDict([gsUri |-> JStr(U_gs_bk), accessUrl |-> JStr(<< "h" >>)])),
    Json(JDict([gsUri |-> JStr(U_gs_bk), bucket |-> JStr(<< "b" >>)])),
    Json(JDict([bucket |-> JStr(<< "b" >>), name |-> JStr(<< "k" >>)])),
    Json(JDict(<< >>)),
    Json(LegacyUrls(<< UrlInfo(U_s3_x), UrlInfo(U_gs_bucket_key) >>)),
    Json(LegacyUrls(<< UrlInfo(U_gs_bdk), UrlInfo(U_gs_c) >>)),
    Json(LegacyUrls(<< UrlInfo(U_gs_b) >>)),
    Json(LegacyUrls(<< UrlInfo(U_gs_b_) >>)),
    Json(LegacyUrls(<< >>)),
    Json(LegacyUrls(<< UrlInfo(U_s3_x) >>)),
    Json(LegacyUrls(<< JDict([other |-> JNull]), UrlInfo(U_gs_c) >>)),
    Json(Legacy(JDict([name |-> JStr(<< "n" >>)]))),
    Json(JDict([dos |-> JDict(<< >>)])),
    Json(JDict([dos |-> JDict([data_object |-> JDict([urls |-> JList(<< UrlInfo(U_gs_bk) >>),
                                                     name |-> JStr(<< "n" >>)])]),
                googleServiceAccount |-> Creds])),
    NotJson,
    Json(JDict([response |-> JDict([text |-> JStr(<< "e" >>)])])),
    Json(JDict([response |-> JDict([status |-> JNum(5)])])),
    Json(JDict([response |-> JStr(<< "n", "o", " " >> \o S_text)])),
    Json(JDict([response |-> JStr(<< "n", "o" >>)])),
    Json(JDict([response |-> JNull])),
    Json(JList(<< >>)),
    Json(JNum(5)),
    Json(JNull)
>>

Response(st, b) ==
    [status_code |-> Statuses[st], isjson |-> Bodies[b].isjson, json |-> Bodies[b].json]

-----------------------------------------------------------------------------
(* SpecResolve: get_drs and get_drs_info applied to every identifier and      *)
(* response                                                                 *)

NoCall == [fn |-> "none", tokens |-> 0, posts |-> 0, res |-> Ok(JNull)]

CallGetDrs ==
    /\ rout.fn = "none"
    /\ LET g == get_drs(Identifiers[rid], Response(rsp[1], rsp[2])) IN
       rout' = [fn |-> "get_drs", tokens |-> g.tokens, posts |-> g.posts, res |-> g.res]
    /\ UNCHANGED << rid, rsp, rpCache, putCount, rpLog, mainpc, op, jobs, queue,
                    busy, net, outcome >>

CallGetDrsInfo ==
    /\ rout.fn = "none"
    /\ LET g == get_drs_info(Identifiers[rid], Response(rsp[1], rsp[2])) IN
       rout' = [fn |-> "get_drs_info", tokens |-> g.tokens, posts |-> g.posts,
                res |-> g.res]
    /\ UNCHANGED << rid, rsp, rpCache, putCount, rpLog, mainpc, op, jobs, queue,
                    busy, net, outcome >>

-----------------------------------------------------------------------------
(* SpecRP: sequential calls of enable_requester_pays                         *)

MaxRpCalls == 4

NoRpCall == [n |-> 0, args |-> << >>, status |-> 0, hit |-> FALSE, ok |-> TRUE,
             warned |-> FALSE]

CallEnableRequesterPays ==
    /\ rpLog.n < MaxRpCalls
    /\ \E args \in RpArgs, status \in PutStatuses :
         LET e == enable_requester_pays(rpCache, args, status) IN
         /\ rpCache' = e.cache
         /\ putCount' = AddPuts(putCount, e.put)
         /\ rpLog' = [n |-> rpLog.n + 1, args |-> args,
                      status |-> IF e.put = << >> THEN 0 ELSE status,
                      hit |-> e.hit, ok |-> e.res.ok, warned |-> e.warned]
    /\ UNCHANGED << rid, rsp, rout, mainpc, op, jobs, queue, busy, net, outcome >>

-----------------------------------------------------------------------------
(* Copy pipeline: copy, copy_batch, head, extract_tar_gz                     *)

MaxJobs == 3
NumWorkers == 2

JobIds == 1..MaxJobs

D_gs_dir == S_gs \o << "d", "/" >>
D_local_dir == S_tmpdir \o << SLASH >>

\* manifest entries: two well-formed ones, then the malformed ones
Entries == <<
    JDict([drs_uri |-> JStr(U_drs_a), dst |-> JStr(D_gs_dir)]),
    JDict([drs_uri |-> JStr(U_drs_a), dst |-> JStr(D_local_dir)]),
    JDict([drs_uri |-> JStr(U_drs_a)]),
    JDict([drs_uri |-> JStr(U_drs_a), dst |-> JNum(7)]),
    JDict([dst |-> JStr(D_gs_dir)]),
    JDict([drs_uri |-> JNull, dst |-> JStr(D_gs_dir)]),
    JStr(U_drs_a)
>>

\* manifests of up to MaxJobs entries, each an index into Entries
Manifests == UNION {[1..n -> 1..Len(Entries)] : n \in 0..MaxJobs}

\* what the resolver may answer to a request of the pipeline
PipeResponses == <<
    [status_code |-> 200, isjson |-> TRUE, json |-> V3Full(<< "b" >>, << "k" >>, << "f" >>)],
    [status_code |-> 200, isjson |-> TRUE, json |-> V3Full(<< "c" >>, << "j" >>, << "g" >>)],
    [status_code |-> 500, isjson |-> TRUE,
     json |-> JDict([response |-> JDict([text |-> JStr(<< "e" >>)])])],
    [status_code |-> 200, isjson |-> TRUE, json |-> JDict([gsUri |-> JStr(U_gs_bk)])]
>>

\* the answers drawn for the jobs of a batch: the first good one and the 500
BatchAnswers == {1, 3}

\* the answers drawn for a single job: every one of PipeResponses
JobAnswers == 1..Len(PipeResponses)

\* destinations of a single job
D_gs_bucket == S_gs \o << "d" >>
D_gs_key == S_gs \o << "d", "/", "x" >>
D_gs_prefix == S_gs \o << "d", "/", "p", "/" >>
D_local_file == S_tmpdir \o << SLASH, "o" >>
JobDsts == {D_gs_dir, D_gs_bucket, D_gs_key, D_gs_prefix, D_local_dir, D_local_file, S_dot}

\* the workspaces the callers of the pipeline name
CallerPairs == {0, WORKSPACE_NAME} \X {WORKSPACE_GOOGLE_PROJECT}

NetKinds == {"token", "put", "post", "transfer", "lookup"}
NoNet == [th \in {"main", "worker"} |-> [k \in NetKinds |-> 0]]
Bump(n, th, k, by) == [n EXCEPT ![th][k] = @ + by]

NoJob == [st |-> "new", uri |-> << >>, dst |-> << >>, namespace |-> 0,
          r1 |-> 0, r2 |-> 0, src |-> << >>, target |-> << >>,
          xfer |-> "none", exc |-> "none", report |-> "none"]

NoOp == [kind |-> "none", ws |-> << 0, 0 >>, manifest |-> << >>, uri |-> << >>,
         dst |-> << >>, next |-> 1, put |-> -1]

\* jsonschema validation of an instance against manifest_schema
item_valid(item) ==
    /\ item.t = "dict"
    /\ \A k \in {"drs_uri", "dst"} : k \in DOMAIN item.d /\ item.d[k].t = "str"

\* mutant: only the first entry is validated
manifest_valid_first(manifest) ==
    Len(manifest) = 0 \/ item_valid(Entries[manifest[1]])

manifest_valid(manifest) == \A i \in 1..Len(manifest) : item_valid(Entries[manifest[i]])

\* the (drs_uri, dst) of the i-th job of the running operation
JobArgs(o, i) ==
    IF o.kind = "copy" THEN << o.uri, o.dst >>
    ELSE << Entries[o.manifest[i]].d.drs_uri.s, Entries[o.manifest[i]].d.dst.s >>

NumItems(o) == IF o.kind = "copy" THEN 1 ELSE Len(o.manifest)

ClientOpen == mainpc \in {"enqueue", "close"}

\* `dst or "."` of copy
DstOrDot(dst) == IF Len(dst) = 0 THEN S_dot ELSE dst

\* mutant: a failed resolution ends the job without an exception
do_copy_first_swallow(dst, namespace, res) ==
    [st |-> "done", exc |-> "none", src |-> << >>, target |-> << >>]

\* _do_copy_drs up to its branch on dst, from the first get_drs_info result
do_copy_first(dst, namespace, res) ==
    IF ~res.ok THEN [st |-> "done", exc |-> res.exc, src |-> << >>, target |-> << >>]
    ELSE LET src_info == res.val
             src_blob == get_drs_blob(src_info, namespace) IN
         IF StartsWith(dst, S_gs)
         THEN LET t == _resolve_bucket_target(dst, src_info) IN
              IF ~t.ok
              THEN [st |-> "done", exc |-> t.exc, src |-> << src_blob >>, target |-> << >>]
              ELSE [st |-> "transfer", exc |-> "none", src |-> << src_blob >>,
                    target |-> << t.val >>]
         ELSE [st |-> "resolve2", exc |-> "none", src |-> << src_blob >>, target |-> << >>]

\* the else branch of _do_copy_drs, from the second get_drs_info result
do_copy_second(dst, res) ==
    IF ~res.ok THEN [st |-> "done", exc |-> res.exc, target |-> << >>]
    ELSE LET t == _resolve_local_target(dst, res.val) IN
         IF ~t.ok THEN [st |-> "done", exc |-> t.exc, target |-> << >>]
         ELSE [st |-> "transfer", exc |-> "none", target |-> << t.val >>]

\* what the pool records for a job that ended with exception exc
PoolReport(exc) == IF exc = "none" THEN "ok" ELSE "failed"

\* how head reports an exception of its try block
head_exc(exc) ==
    IF exc \in {"DRSResolutionError", "BlobNotFoundError"} THEN "BlobNotFoundError" ELSE exc

StartOp(o, pc) ==
    /\ mainpc = "idle"
    /\ op' = o
    /\ mainpc' = pc
    /\ outcome' = "running"
    /\ UNCHANGED << jobs, queue, busy, rpCache, putCount, rid, rsp, rout, rpLog >>

CallCopy ==
    /\ mainpc = "idle"
    /\ \E dst \in {D_gs_dir, D_local_dir, << >>}, ws \in CallerPairs :
        /\ StartOp([NoOp EXCEPT !.kind = "copy", !.ws = ws, !.uri = U_drs_a,
                                !.dst = DstOrDot(dst)], "rp")
        /\ net' = NoNet

CallCopyBatch ==
    /\ mainpc = "idle"
    /\ \E manifest \in Manifests, ws \in CallerPairs :
        /\ StartOp([NoOp EXCEPT !.kind = "copy_batch", !.ws = ws,
                                !.manifest = manifest], "validate")
        /\ net' = NoNet

CallHead ==
    /\ mainpc = "idle"
    /\ \E uri \in {U_drs_a, U_gs_bk}, ws \in CallerPairs :
        /\ StartOp([NoOp EXCEPT !.kind = "head", !.ws = ws, !.uri = uri], "rp")
        /\ net' = NoNet

\* without dst the workspace bucket is looked up first (line 288)
CallExtractTarGz ==
    /\ mainpc = "idle"
    /\ \E dst \in {D_gs_dir, << >>}, ws \in CallerPairs :
        /\ StartOp([NoOp EXCEPT !.kind = "extract_tar_gz", !.ws = ws,
                                !.uri = U_drs_a, !.dst = dst], "rp")
        /\ net' = Bump(NoNet, "main", "lookup", IF Len(dst) = 0 THEN 1 ELSE 0)

\* the operation returns or raises: result is "ok" or the exception
Finish(result) ==
    /\ mainpc' = "done"
    /\ outcome' = result

\* the caller has the result; the records of the finished operation are dropped
\* while the lru_cache lives on
Return ==
    /\ mainpc = "done"
    /\ mainpc' = "idle"
    /\ op' = NoOp
    /\ jobs' = [j \in JobIds |-> NoJob]
    /\ net' = NoNet
    /\ outcome' = "none"
    /\ UNCHANGED << queue, busy, rpCache, putCount, rid, rsp, rout, rpLog >>

Validate ==
    /\ mainpc = "validate"
    /\ IF manifest_valid(op.manifest)
       THEN mainpc' = "rp" /\ UNCHANGED outcome
       ELSE Finish("ValidationError")
    /\ UNCHANGED << op, jobs, queue, busy, net, rpCache, putCount,
                    rid, rsp, rout, rpLog >>

\* where an operation goes once enable_requester_pays has returned
after_enable(kind) == IF kind \in {"copy", "copy_batch"} THEN "open" ELSE "resolve"

EnableRP ==
    /\ mainpc = "rp"
    /\ \E status \in PutStatuses :
         LET e == enable_requester_pays(rpCache, op.ws, status) IN
         /\ rpCache' = e.cache
         /\ putCount' = AddPuts(putCount, e.put)
         /\ net' = Bump(Bump(net, "main", "token", e.tokens), "main", "put", Len(e.put))
         /\ op' = [op EXCEPT !.put = IF e.put = << >> THEN 0 ELSE status]
         /\ IF e.res.ok
            THEN mainpc' = after_enable(op.kind) /\ UNCHANGED outcome
            ELSE Finish(e.res.exc)
    /\ UNCHANGED << jobs, queue, busy, rid, rsp, rout, rpLog >>

OpenClient ==
    /\ mainpc = "open"
    /\ mainpc' = IF NumItems(op) = 0 THEN "close" ELSE "enqueue"
    /\ UNCHANGED << op, jobs, queue, busy, net, outcome, rpCache, putCount,
                    rid, rsp, rout, rpLog >>

\* mutant: the identifier is resolved when the job is submitted
Enqueue_eager ==
    /\ mainpc = "enqueue"
    /\ LET i == op.next
           a == JobArgs(op, i) IN
       /\ jobs' = [jobs EXCEPT ![i] = [NoJob EXCEPT !.st = "queued", !.uri = a[1],
                                                   !.dst = a[2], !.namespace = op.ws[2]]]
       /\ queue' = Append(queue, i)
       /\ op' = [op EXCEPT !.next = i + 1]
       /\ mainpc' = IF i + 1 > NumItems(op) THEN "close" ELSE "enqueue"
    /\ net' = Bump(Bump(net, "main", "token", 1), "main", "post", 1)
    /\ UNCHANGED << busy, outcome, rpCache, putCount, rid, rsp, rout, rpLog >>

\* DRSCopyClient.copy: one put on the queue
Enqueue ==
    /\ mainpc = "enqueue"
    /\ LET i == op.next
           a == JobArgs(op, i) IN
       /\ jobs' = [jobs EXCEPT ![i] = [NoJob EXCEPT !.st = "queued", !.uri = a[1],
                                                   !.dst = a[2], !.namespace = op.ws[2]]]
       /\ queue' = Append(queue, i)
       /\ op' = [op EXCEPT !.next = i + 1]
       /\ mainpc' = IF i + 1 > NumItems(op) THEN "close" ELSE "enqueue"
    /\ UNCHANGED << busy, net, outcome, rpCache, putCount, rid, rsp, rout, rpLog >>

\* leaving the `with` block: the queue is drained and the workers joined
CloseClient ==
    /\ mainpc = "close"
    /\ queue = << >>
    /\ busy = {}
    /\ Finish(IF op.kind = "copy" /\ \E j \in JobIds : jobs[j].report = "failed"
              THEN "error" ELSE "ok")
    /\ UNCHANGED << op, jobs, queue, busy, net, rpCache, putCount,
                    rid, rsp, rout, rpLog >>

\* an idle worker takes the next job from the queue
WorkerTake ==
    /\ ClientOpen
    /\ Cardinality(busy) < NumWorkers
    /\ queue # << >>
    /\ busy' = busy \cup {Head(queue)}
    /\ queue' = Tail(queue)
    /\ jobs' = [jobs EXCEPT ![Head(queue)].st = "resolve"]
    /\ UNCHANGED << mainpc, op, net, outcome, rpCache, putCount,
                    rid, rsp, rout, rpLog >>

\* job j moves on with new fields f; a finished job is reported and its
\* worker freed
Advance(j, f) ==
    LET moved == [k \in DOMAIN jobs[j] |-> IF k \in DOMAIN f THEN f[k] ELSE jobs[j][k]] IN
    /\ jobs' = [jobs EXCEPT ![j] =
                   IF moved.st = "done"
                   THEN [moved EXCEPT !.report = PoolReport(moved.exc)]
                   ELSE moved]
    /\ busy' = IF moved.st = "done" THEN busy \ {j} ELSE busy

\* the worker of job j runs _do_copy_drs up to its branch on dst; the resolver
\* answers with one of PipeResponses[r], r in answers
ResolveWith(j, answers) ==
    /\ j \in busy
    /\ jobs[j].st = "resolve"
    /\ \E r \in answers :
         LET job == jobs[j]
             g == get_drs_info(job.uri, PipeResponses[r])
             f == do_copy_first(job.dst, job.namespace, g.res) IN
         /\ Advance(j, [st |-> f.st, exc |-> f.exc, src |-> f.src,
                         target |-> f.target, r1 |-> r])
         /\ net' = Bump(Bump(net, "worker", "token", g.tokens), "worker", "post", g.posts)
    /\ UNCHANGED << mainpc, op, queue, outcome, rpCache, putCount,
                    rid, rsp, rout, rpLog >>

\* the worker of job j runs the else branch of _do_copy_drs
Resolve2With(j, answers) ==
    /\ j \in busy
    /\ jobs[j].st = "resolve2"
    /\ \E r \in answers :
         LET job == jobs[j]
             g == get_drs_info(job.uri, PipeResponses[r])
             f == do_copy_second(job.dst, g.res) IN
         /\ Advance(j, [st |-> f.st, exc |-> f.exc, target |-> f.target, r2 |-> r])
         /\ net' = Bump(Bump(net, "worker", "token", g.tokens), "worker", "post", g.posts)
    /\ UNCHANGED << mainpc, op, queue, outcome, rpCache, putCount,
                    rid, rsp, rout, rpLog >>

WorkerResolve(j) == ResolveWith(j, BatchAnswers)

WorkerResolve2(j) == Resolve2With(j, BatchAnswers)

\* copy_client._do_copy: the transfer engine succeeds or raises
WorkerTransfer(j) ==
    /\ j \in busy
    /\ jobs[j].st = "transfer"
    /\ \E x \in {"ok", "TransferError"} :
         Advance(j, [st |-> "done", xfer |-> x, exc |-> IF x = "ok" THEN "none" ELSE x])
    /\ net' = Bump(net, "worker", "transfer", 1)
    /\ UNCHANGED << mainpc, op, queue, outcome, rpCache, putCount,
                    rid, rsp, rout, rpLog >>

\* head and extract_tar_gz resolve on the calling thread (get_drs_blob)
MainResolve ==
    /\ mainpc = "resolve"
    /\ \E r \in BatchAnswers :
         LET g == get_drs_info(op.uri, PipeResponses[r]) IN
         /\ net' = Bump(Bump(net, "main", "token", g.tokens), "main", "post", g.posts)
         /\ IF g.res.ok
            THEN mainpc' = "read" /\ UNCHANGED outcome
            ELSE Finish(IF op.kind = "head" THEN head_exc(g.res.exc) ELSE g.res.exc)
    /\ UNCHANGED << op, jobs, queue, busy, rpCache, putCount, rid, rsp, rout, rpLog >>

\* blob.open and the read or extraction that follows
MainRead ==
    /\ mainpc = "read"
    /\ \E x \in {"ok", "BlobNotFoundError"} : Finish(x)
    /\ net' = Bump(net, "main", "transfer", 1)
    /\ UNCHANGED << op, jobs, queue, busy, rpCache, putCount, rid, rsp, rout, rpLog >>

-----------------------------------------------------------------------------
(* Specifications *)

InitResolver == rid = 1 /\ rsp = << 1, 1 >> /\ rout = NoCall

InitRP == rpCache = << >> /\ putCount = [p \in Pairs |-> 0] /\ rpLog = NoRpCall

InitPipeline ==
    /\ mainpc = "idle"
    /\ op = NoOp
    /\ jobs = [j \in JobIds |-> NoJob]
    /\ queue = << >>
    /\ busy = {}
    /\ net = NoNet
    /\ outcome = "none"

Init == InitResolver /\ InitRP /\ InitPipeline

Next ==
    \/ CallCopy
    \/ CallCopyBatch
    \/ CallHead
    \/ CallExtractTarGz
    \/ Validate
    \/ EnableRP
    \/ OpenClient
    \/ Enqueue
    \/ CloseClient
    \/ MainResolve
    \/ MainRead
    \/ Return
    \/ WorkerTake
    \/ \E j \in JobIds : WorkerResolve(j)
    \/ \E j \in JobIds : WorkerResolve2(j)
    \/ \E j \in JobIds : WorkerTransfer(j)

Spec == Init /\ [][Next]_vars

InitResolve ==
    /\ rid \in 1..Len(Identifiers)
    /\ rsp \in (1..Len(Statuses)) \X (1..Len(Bodies))
    /\ rout = NoCall
    /\ InitRP
    /\ InitPipeline

NextResolve == CallGetDrs \/ CallGetDrsInfo

SpecResolve == InitResolve /\ [][NextResolve]_vars

NextRP == CallEnableRequesterPays

\* SpecJob: one job of copy in the hands of a worker, over every destination
\* and every answer of the resolver
InitJob ==
    /\ InitResolver
    /\ rpCache = << << WORKSPACE_NAME, WORKSPACE_GOOGLE_PROJECT >> >>
    /\ putCount = [p \in Pairs |->
                     IF p = << WORKSPACE_NAME, WORKSPACE_GOOGLE_PROJECT >> THEN 1 ELSE 0]
    /\ rpLog = NoRpCall
    /\ mainpc = "close"
    /\ \E dst \in JobDsts :
         /\ op = [NoOp EXCEPT !.kind = "copy", !.uri = U_drs_a, !.dst = dst,
                              !.ws = << WORKSPACE_NAME, WORKSPACE_GOOGLE_PROJECT >>,
                              !.next = 2, !.put = 204]
         /\ jobs = [j \in JobIds |->
                      IF j = 1
                      THEN [NoJob EXCEPT !.st = "resolve", !.uri = U_drs_a, !.dst = dst,
                                         !.namespace = WORKSPACE_GOOGLE_PROJECT]
                      ELSE NoJob]
    /\ queue = << >>
    /\ busy = {1}
    /\ net = Bump(Bump(NoNet, "main", "token", 1), "main", "put", 1)
    /\ outcome = "running"

JobResolve == ResolveWith(1, JobAnswers)

JobResolve2 == Resolve2With(1, JobAnswers)

JobTransfer == WorkerTransfer(1)

NextJob == JobResolve \/ JobResolve2 \/ JobTransfer \/ CloseClient

SpecJob == InitJob /\ [][NextJob]_vars

SpecRP == Init /\ [][NextRP]_vars

-----------------------------------------------------------------------------
(* Claims about the resolver (SpecResolve)                                   *)

TheIdentifier == Identifiers[rid]
TheStatus == Statuses[rsp[1]]
TheBody == Bodies[rsp[2]]

\* C5: for every identifier that does not start with drs://, get_drs and
\* get_drs_info fail without requesting a token or sending a POST.
C5_NonDrsFailsWithoutNetwork ==
    (rout.fn # "none" /\ ~StartsWith(TheIdentifier, S_drs))
        => (~rout.res.ok /\ rout.tokens = 0 /\ rout.posts = 0)

\* the error body has a nested response.text field
HasNestedText(body) ==
    /\ body.isjson
    /\ body.json.t = "dict"
    /\ "response" \in DOMAIN body.json.d
    /\ body.json.d.response.t = "dict"
    /\ "text" \in DOMAIN body.json.d.response.d

\* C6: for every non-200 response get_drs fails with DRSResolutionError
\* carrying the status code; the error text is response.text when the body has
\* that nested field and empty in every other case.
C6_Non200IsResolutionError ==
    (rout.fn = "get_drs" /\ TheStatus # 200)
        => /\ rout.res.exc = "DRSResolutionError"
           /\ rout.res.status = TheStatus
           /\ rout.res.details = IF HasNestedText(TheBody)
                                 THEN << TheBody.json.d.response.d.text >>
                                 ELSE << >>

\* C7: every DRSInfo that get_drs_info returns has both bucket_name and key, or
\* has access_url.
C7_InfoHasUsableLocation ==
    (rout.fn = "get_drs_info" /\ rout.res.ok)
        => \/ rout.res.val.bucket_name.t # "null" /\ rout.res.val.key.t # "null"
           \/ rout.res.val.access_url.t # "null"

\* a legacy-shape body: a `dos` object holding a `data_object` object
IsLegacy(body) ==
    /\ body.isjson
    /\ body.json.t = "dict"
    /\ "dos" \in DOMAIN body.json.d
    /\ body.json.d.dos.t = "dict"
    /\ "data_object" \in DOMAIN body.json.d.dos.d
    /\ body.json.d.dos.d.data_object.t = "dict"

\* its list of candidates, empty when absent
Candidates(body) ==
    LET o == body.json.d.dos.d.data_object.d IN
    IF "urls" \in DOMAIN o /\ o.urls.t = "list" THEN o.urls.l ELSE << >>

IsGsCandidate(c) ==
    c.t = "dict" /\ "url" \in DOMAIN c.d /\ c.d.url.t = "str" /\ StartsWith(c.d.url.s, S_gs)

\* the bucket and key the claim gives for a gs:// URL
ExpectedBucketKey(url) ==
    LET rest == SubSeq(url, Len(S_gs) + 1, Len(url))
        i == FirstIndex(rest, SLASH) IN
    IF i = 0 THEN << rest, << >> >>
    ELSE << SubSeq(rest, 1, i - 1), SubSeq(rest, i + 1, Len(rest)) >>

\* C8: normalising a legacy-shape response takes the first gs:// candidate
\* in list order and returns the bucket and key parsed from it, the key empty
\* when no `/` follows the bucket; without any gs:// candidate it fails with
\* DRSResolutionError.
C8_LegacyFirstGsCandidate ==
    (rout.fn = "get_drs_info" /\ StartsWith(TheIdentifier, S_drs)
        /\ TheStatus = 200 /\ IsLegacy(TheBody))
        => LET c == Candidates(TheBody)
               gs == {i \in 1..Len(c) : IsGsCandidate(c[i])} IN
           IF gs = {}
           THEN rout.res.exc = "DRSResolutionError"
           ELSE LET first == CHOOSE i \in gs : \A k \in gs : i <= k
                    bk == ExpectedBucketKey(c[first].d.url.s) IN
                /\ rout.res.ok
                /\ rout.res.val.bucket_name = JStr(bk[1])
                /\ rout.res.val.key = JStr(bk[2])

-----------------------------------------------------------------------------
(* Claim about the requester-pays enabler (SpecRP)                           *)

\* the pair was enabled: a call for it returned normally
WasEnabled(p) ==
    \E i \in 1..Len(rpCache) :
        << workspace_name(rpCache[i]), workspace_namespace(rpCache[i]) >> = p

\* C4: after any sequence of sequential enable_requester_pays calls, exactly
\* one PUT was issued for every pair enabled at least once (and none more
\* than once for any pair).
C4_OnePutPerPair ==
    \A p \in Pairs : putCount[p] <= 1 /\ (WasEnabled(p) => putCount[p] = 1)

-----------------------------------------------------------------------------
(* Claims about the copy pipeline (Spec, SpecJob)                            *)

\* the manifest entry lacks a string drs_uri or a string dst
Malformed(item) ==
    \/ item.t # "dict"
    \/ "drs_uri" \notin DOMAIN item.d
    \/ "dst" \notin DOMAIN item.d
    \/ item.d.drs_uri.t # "str"
    \/ item.d.dst.t # "str"

AllJobsNew == \A j \in JobIds : jobs[j] = NoJob

\* C1: a copy_batch whose manifest has a malformed entry, at any position,
\* fails with no job enqueued, no requester-pays PUT, no resolver request and
\* no copy client opened.
C1_MalformedManifestNoSideEffects ==
    (op.kind = "copy_batch" /\ \E i \in 1..Len(op.manifest) : Malformed(Entries[op.manifest[i]]))
        => /\ mainpc \in {"validate", "done"}
           /\ mainpc = "done" => outcome = "ValidationError"
           /\ AllJobsNew
           /\ queue = << >>
           /\ net = NoNet
           /\ op.put = -1

\* two well-formed entries followed by a malformed one were rejected
C1_Witness ==
    /\ op.kind = "copy_batch"
    /\ mainpc = "done"
    /\ outcome = "ValidationError"
    /\ Len(op.manifest) = 3
    /\ ~Malformed(Entries[op.manifest[1]])
    /\ ~Malformed(Entries[op.manifest[2]])
    /\ Malformed(Entries[op.manifest[3]])

\* the resolver or the transfer engine failed job j
JobFails(j) ==
    \/ jobs[j].r1 # 0 /\ PipeResponses[jobs[j].r1].status_code # 200
    \/ jobs[j].r2 # 0 /\ PipeResponses[jobs[j].r2].status_code # 200
    \/ jobs[j].xfer = "TransferError"

BatchOver ==
    op.kind = "copy_batch" /\ mainpc = "done"
        /\ outcome \notin {"ValidationError", "AssertionError"}

\* C2: when a batch is over, every job has run: each job whose resolution or
\* transfer failed is reported failed, every other job has resolved and
\* transferred and is reported successful, whatever the other jobs did.
C2_JobsIndependent ==
    BatchOver =>
        \A j \in 1..Len(op.manifest) :
            /\ jobs[j].st = "done"
            /\ IF JobFails(j)
               THEN jobs[j].report = "failed"
               ELSE /\ jobs[j].report = "ok"
                    /\ jobs[j].r1 # 0
                    /\ jobs[j].xfer = "ok"

\* three jobs, the second failed, the first and third succeeded
C2_Witness ==
    /\ BatchOver
    /\ Len(op.manifest) = 3
    /\ JobFails(2) /\ jobs[2].report = "failed"
    /\ ~JobFails(1) /\ jobs[1].report = "ok"
    /\ ~JobFails(3) /\ jobs[3].report = "ok"

CopyKinds == {"copy", "copy_batch"}

\* C3 as stated: in copy and copy_batch no network request of any kind is
\* issued on the submitting thread.
C3_NoRequestOnSubmittingThread ==
    op.kind \in CopyKinds => \A k \in NetKinds : net["main"][k] = 0

C3_MainThreadRequests ==
    op.kind \in CopyKinds
        => /\ net["main"]["post"] = 0
           /\ net["main"]["transfer"] = 0
           /\ net["main"]["lookup"] = 0
           /\ net["main"]["put"] <= 1
           /\ net["main"]["token"] = net["main"]["put"]

C3_MainThreadStep ==
    /\ (op.kind \in CopyKinds /\ op'.kind = op.kind /\ net'["main"] # net["main"])
           => (mainpc = "rp" /\ AllJobsNew /\ queue = << >>)
    /\ (mainpc = "enqueue" /\ Len(queue') > Len(queue)) => net' = net

\* C3 amended: in copy and copy_batch the resolver requests (token and POST)
\* and the transfer are issued only by workers, and DRSCopyClient.copy issues
\* no request; the submitting thread issues at most one token request and one
\* requester-pays PUT, before the client is opened and any job is enqueued.
C3_OnlyRequesterPaysOnSubmittingThread ==
    []C3_MainThreadRequests /\ [][C3_MainThreadStep]_vars

\* a whole manifest is enqueued, the PUT was issued by the submitting thread
\* and no worker has issued a request yet
C3_Witness ==
    /\ op.kind = "copy_batch"
    /\ Len(queue) = 3
    /\ net["main"]["put"] = 1
    /\ net["worker"] = [k \in NetKinds |-> 0]

\* the steps after enable_requester_pays have all been executed: every job
\* has resolved and ended; head and extract_tar_gz have sent their resolver
\* request, unless get_drs_info rejected the identifier
StepsExecuted ==
    IF op.kind \in CopyKinds
    THEN \A j \in 1..NumItems(op) : jobs[j].st = "done" /\ jobs[j].r1 # 0
    ELSE IF StartsWith(op.uri, S_drs)
         THEN net["main"]["post"] = 1
         ELSE outcome = "AssertionError"

\* C9: after a PUT answered with a status other than 204 the operation goes
\* on: enable_requester_pays has returned normally and, when the operation is
\* over, its resolution (and transfer or read) steps have been executed.
C9_Non204NotFatal ==
    (op.put > 0 /\ op.put # 204)
        => /\ mainpc \in {"open", "enqueue", "close", "resolve", "read", "done"}
           /\ mainpc = "done" => StepsExecuted

\* a copy whose PUT was answered 403 has ended well
C9_Witness ==
    /\ op.kind = "copy"
    /\ op.put = 403
    /\ mainpc = "done"
    /\ outcome = "ok"

\* the DRSInfo of the r-th resolver answer
InfoOf(j, r) == get_drs_info(jobs[j].uri, PipeResponses[r]).res.val

\* C10: every executed job issues exactly one resolver request, and the
\* source blob and the destination are planned from that one DRSInfo.
C10_SingleResolution ==
    \A j \in JobIds :
        jobs[j].r1 # 0 =>
            /\ jobs[j].r2 = 0
            /\ jobs[j].st = "transfer" =>
                  /\ jobs[j].src = << get_drs_blob(InfoOf(j, jobs[j].r1), jobs[j].namespace) >>
                  /\ jobs[j].target =
                        << IF StartsWith(jobs[j].dst, S_gs)
                           THEN _resolve_bucket_target(jobs[j].dst, InfoOf(j, jobs[j].r1)).val
                           ELSE _resolve_local_target(jobs[j].dst, InfoOf(j, jobs[j].r1)).val >>

====
